---- MODULE Spec2Model ----
(***************************************************************************)
(* Model of the Robot Framework keyword recommender:                       *)
(*   robot_keyword_extractor.py   RobotKeywordExtractor (output.xml walk)  *)
(*   log_html_parser.py           LogHTMLExtractor (log.html fallback)     *)
(*   robot_keyword_recommender.py KeywordPatternAnalyzer and               *)
(*                                RobotKeywordRecommender                  *)
(*                                                                         *)
(* Python strings are TLA+ strings, Python lists are sequences, Python     *)
(* dicts are sequences of <<key, value>> pairs in insertion order (the     *)
(* order a dict iterates in and a stable sort falls back on), Python sets  *)
(* are sets.  Of a keyword record the model keeps name, type, library,     *)
(* level, parent, test_name, status and execution_order; start_time,       *)
(* end_time, arguments and return_values are copied from the node without  *)
(* influencing anything else and are left out.                             *)
(***************************************************************************)
EXTENDS Integers, Sequences, FiniteSets, TLC

VARIABLES
    \* ---- RobotKeywordExtractor (one extractor object) ----
    log,                 \* the file self.output_file names
    keywords,            \* self.keywords
    xstate,              \* "new" | "returned" | "exited" (sys.exit(1)) | "raised"
    \* ---- LogHTMLExtractor (one extractor object) ----
    log_file,            \* self.log_file: the path of the document read
    html_keywords,       \* self.keywords
    execution_order,     \* self.execution_order
    hstate,              \* "new" | "returned" | "raised"
    \* ---- KeywordPatternAnalyzer ----
    keyword_sequences,   \* list of lists of names
    keyword_transitions, \* defaultdict(Counter): dict name -> dict name -> count
    keyword_contexts,    \* defaultdict(set): dict name -> set of contexts
    library_keywords,    \* defaultdict(set): dict library -> set of names
    keyword_frequencies, \* Counter: dict name -> count
    keyword_libraries,   \* dict name -> library
    \* ---- the process running the recommender ----
    pc,                  \* "idle" | "training" | "answered" | "exited"
    pending,             \* files of the running train_on_output_files call not yet reached
    save_after,          \* its save_model argument (TRUE: a path was given)
    hash_seed,           \* the process's string-hash seed (fixes set iteration order)
    model_file,          \* the pickled model on disk, or NoFile
    result,              \* what the last query returned
    \* ---- history (not program state) ----
    nProcessed,          \* files handed to analyze_output_file so far
    trained,             \* files the analyzer in memory has ingested, in order
    just_loaded,         \* TRUE when load_model was the last operation to run
    saved,               \* what the last save_model saved, and in which process
    returns,             \* the lists the extract_keywords calls on the
                         \* RobotKeywordExtractor returned, as they were then
    html_returns        \* the same for the LogHTMLExtractor

extractorVars == <<log, keywords, xstate, returns,
                   log_file, html_keywords, execution_order, hstate, html_returns>>
analyzerVars  == <<keyword_sequences, keyword_transitions, keyword_contexts,
                   library_keywords, keyword_frequencies, keyword_libraries>>
processVars   == <<pc, pending, save_after, hash_seed, model_file, result>>
historyVars   == <<nProcessed, trained, just_loaded, saved>>
vars == <<extractorVars, analyzerVars, processVars, historyVars>>

-----------------------------------------------------------------------------
(* Python dicts: sequences of <<key, value>> in insertion order.           *)

Range(s) == {s[i] : i \in DOMAIN s}

DictKeys(d) == {d[i][1] : i \in DOMAIN d}

DictHas(d, k) == \E i \in DOMAIN d : d[i][1] = k

DictIndex(d, k) == CHOOSE i \in DOMAIN d : d[i][1] = k

\* d[k] of a plain dict when k is present
DictAt(d, k) == d[DictIndex(d, k)][2]

\* d.get(k, default)
DictGet(d, k, default) == IF DictHas(d, k) THEN DictAt(d, k) ELSE default

\* d[k] = v: an existing key keeps its position, a new key goes last
DictSet(d, k, v) ==
    IF DictHas(d, k)
    THEN [d EXCEPT ![DictIndex(d, k)] = <<k, v>>]
    ELSE Append(d, <<k, v>>)

\* defaultdict.__getitem__ with missing key: the default is inserted
DefaultDictTouch(d, k, default) ==
    IF DictHas(d, k) THEN d ELSE Append(d, <<k, default>>)

\* Counter.__getitem__: 0 for a missing key, nothing inserted
CounterAt(c, k) == DictGet(c, k, 0)

\* counter[k] += 1
CounterInc(c, k) == DictSet(c, k, CounterAt(c, k) + 1)

RECURSIVE SumValues(_)
\* sum(d.values())
SumValues(d) == IF d = <<>> THEN 0 ELSE d[1][2] + SumValues(Tail(d))

-----------------------------------------------------------------------------
(* XML elements of an output.xml document.                                 *)
(* An element is [tag, attrs, children]; attrs is a function from the      *)
(* attribute names present to their values.                                *)

NoAttrs == [a \in {} |-> ""]

Elem(tag, attrs, children) == [tag |-> tag, attrs |-> attrs, children |-> children]

Named(name) == [a \in {"name"} |-> name]

Kw(name, children) == Elem("kw", Named(name), children)

KwFull(name, type, library, children) ==
    Elem("kw", [a \in {"name", "type", "library"} |->
                  CASE a = "name" -> name [] a = "type" -> type [] OTHER -> library],
         children)

Test(name, children) == Elem("test", Named(name), children)

Suite(name, children) == Elem("suite", Named(name), children)

Robot(children) == Elem("robot", NoAttrs, children)

Status(s) == Elem("status", [a \in {"status"} |-> s], <<>>)

\* element.get(key, default)
AttrGet(element, key, default) ==
    IF key \in DOMAIN element.attrs THEN element.attrs[key] ELSE default

\* element.find(tag): the first direct child with that tag, or None
NoElem == [tag |-> "<none>"]

Find(element, tag) ==
    IF \E i \in DOMAIN element.children : element.children[i].tag = tag
    THEN element.children[CHOOSE i \in DOMAIN element.children :
            /\ element.children[i].tag = tag
            /\ \A j \in 1..(i - 1) : element.children[j].tag # tag]
    ELSE NoElem

RECURSIVE Descendants(_, _)
\* element.findall('.//tag'): every descendant with that tag, document order
Descendants(element, tag) ==
    LET RECURSIVE Over(_, _)
        Over(cs, i) ==
            IF i > Len(cs) THEN <<>>
            ELSE (IF cs[i].tag = tag THEN <<cs[i]>> ELSE <<>>)
                 \o Descendants(cs[i], tag) \o Over(cs, i + 1)
    IN Over(element.children, 1)

-----------------------------------------------------------------------------
(* RobotKeywordExtractor                                                   *)

\* the parent name handed to the children of a keyword node
KwParentDropsChain(parent_name, keyword_name) == keyword_name

KwCurrentParent(parent_name, keyword_name) ==
    IF parent_name # "" THEN parent_name \o "." \o keyword_name ELSE keyword_name

\* 'execution_order': len(self.keywords) + 1
ExecutionOrderZeroBased(kws) == Len(kws)

ExecutionOrder(kws) == Len(kws) + 1

RECURSIVE Located(_, _)
\* the element with every element below it carrying its place in the
\* document: the child indexes leading to it from pos (history: it tells
\* the nodes of the tree apart, as object identity does in the program)
Located(element, pos) ==
    [tag      |-> element.tag,
     attrs    |-> element.attrs,
     children |-> [i \in DOMAIN element.children |->
                     Located(element.children[i], Append(pos, i))],
     pos      |-> pos]

\* the record appended for a kw element; path and node are history: path is
\* the <<tag, name>> of every element entered on the way from the walk's
\* start to this node, node is the place of the kw element in the document
KeywordInfo(element, level, parent_name, test_name, path, kws) ==
    [name            |-> AttrGet(element, "name", "Unknown"),
     type            |-> AttrGet(element, "type", "keyword"),
     library         |-> AttrGet(element, "library", ""),
     level           |-> level,
     parent          |-> parent_name,
     test_name       |-> test_name,
     status          |-> IF Find(element, "status") # NoElem
                         THEN AttrGet(Find(element, "status"), "status", "UNKNOWN")
                         ELSE "UNKNOWN",
     execution_order |-> ExecutionOrder(kws),
     path            |-> path,
     node            |-> element.pos]

RECURSIVE extract_keywords_recursive(_, _, _, _, _, _)
\* returns self.keywords after the call; kws is self.keywords before it
extract_keywords_recursive(element, level, parent_name, test_name, path, kws) ==
    LET isKw   == element.tag = "kw"
        isTest == element.tag = "test"
        kws1   == IF isKw
                  THEN Append(kws, KeywordInfo(element, level, parent_name,
                                               test_name, path, kws))
                  ELSE kws
        test1  == IF isTest THEN AttrGet(element, "name", "Unknown Test")
                  ELSE test_name
        current_parent ==
            IF isKw THEN KwCurrentParent(parent_name, AttrGet(element, "name", "Unknown"))
            ELSE IF isTest THEN test1
            ELSE parent_name
        childLevel == IF isKw THEN level + 1 ELSE level
        childPath  == Append(path, <<element.tag, AttrGet(element, "name", "")>>)
        RECURSIVE Children(_, _)
        Children(i, acc) ==
            IF i > Len(element.children) THEN acc
            ELSE Children(i + 1,
                     extract_keywords_recursive(element.children[i], childLevel,
                                                current_parent, test1, childPath, acc))
    IN Children(1, kws1)

\* the suites extract_keywords starts a walk from
StartSuites(robot_elem) == Descendants(robot_elem, "suite")

\* File kinds: "xml" (well-formed, root given), "missing", "malformed",
\* and "deep" (well-formed but nested beyond the interpreter's recursion
\* limit; root gives the part of the tree the walk visits before the limit)
FileOf(root) == [kind |-> "xml", root |-> root]

\* the robot element extract_keywords works on, or NoElem
RobotElem(root) ==
    IF root.tag = "robot" THEN root
    ELSE IF Descendants(root, "robot") # <<>> THEN Descendants(root, "robot")[1]
    ELSE NoElem

\* outcome of extractor.extract_keywords(): "ok" with the records,
\* "exit" (sys.exit(1): SystemExit) or "error" (an Exception subclass: the
\* RecursionError of the walk; keywords is then self.keywords as the walk
\* left it, never returned)
ExtractOutcome(file, kws) ==
    IF file.kind \in {"missing", "malformed"} THEN [kind |-> "exit", keywords |-> kws]
    ELSE IF RobotElem(file.root) = NoElem THEN [kind |-> "exit", keywords |-> kws]
    ELSE LET suites == StartSuites(RobotElem(Located(file.root, <<>>)))
             RECURSIVE Each(_, _)
             Each(i, acc) ==
                 IF i > Len(suites) THEN acc
                 ELSE Each(i + 1, extract_keywords_recursive(suites[i], 0, "", "", <<>>, acc))
         IN [kind |-> IF file.kind = "deep" THEN "error" ELSE "ok",
             keywords |-> Each(1, kws)]

-----------------------------------------------------------------------------
(* KeywordPatternAnalyzer.analyze_output_file                              *)

\* An analyzer value: the six structures of one KeywordPatternAnalyzer.
EmptyAnalyzer ==
    [keyword_sequences   |-> <<>>,
     keyword_transitions |-> <<>>,
     keyword_contexts    |-> <<>>,
     library_keywords    |-> <<>>,
     keyword_frequencies |-> <<>>,
     keyword_libraries   |-> <<>>]

\* the context after a record: own name at level 0, appended at level 1,
\* unchanged deeper
NextContext(current_context, keyword_name, level) ==
    IF level = 0 THEN keyword_name
    ELSE IF level = 1 THEN current_context \o "." \o keyword_name
    ELSE current_context

\* self.keyword_transitions[prev_keyword][keyword_name] += 1, when the
\* sequence in progress is not empty
TransitionsFromFirst(transitions, current_sequence, keyword_name) ==
    IF current_sequence = <<>> THEN transitions
    ELSE DictSet(transitions, current_sequence[1],
                 CounterInc(DictGet(transitions, current_sequence[1], <<>>),
                            keyword_name))

CountTransition(transitions, current_sequence, keyword_name) ==
    IF current_sequence = <<>> THEN transitions
    ELSE LET prev_keyword == current_sequence[Len(current_sequence)]
         IN DictSet(transitions, prev_keyword,
                    CounterInc(DictGet(transitions, prev_keyword, <<>>), keyword_name))

\* self.library_keywords[library].add(keyword_name)
AddToLibraryReplaces(libkws, library, keyword_name) ==
    DictSet(libkws, library, {keyword_name})

AddToLibrary(libkws, library, keyword_name) ==
    DictSet(libkws, library, DictGet(libkws, library, {}) \cup {keyword_name})

\* at a boundary record: self.keyword_sequences.append(current_sequence)
\* when the sequence has more than one element
CloseSequenceAlways(sequences, current_sequence) ==
    Append(sequences, current_sequence)

CloseSequence(sequences, current_sequence) ==
    IF Len(current_sequence) > 1 THEN Append(sequences, current_sequence)
    ELSE sequences

\* one iteration of the loop over the records; st holds the analyzer and the
\* loop's locals current_sequence and current_context
AnalyzeRecord(st, keyword) ==
    LET keyword_name == keyword.name
        library == IF keyword.library # "" THEN keyword.library ELSE "BuiltIn"
        level == keyword.level
        ctx == NextContext(st.current_context, keyword_name, level)
        an == st.an
        seq1 == Append(st.current_sequence, keyword_name)
        boundary == keyword.type \in {"SETUP", "TEARDOWN"} /\ level = 0
    IN [an |->
          [keyword_libraries   |-> DictSet(an.keyword_libraries, keyword_name, library),
           library_keywords    |-> AddToLibrary(an.library_keywords, library, keyword_name),
           keyword_frequencies |-> CounterInc(an.keyword_frequencies, keyword_name),
           keyword_contexts    |-> DictSet(an.keyword_contexts, keyword_name,
                                      DictGet(an.keyword_contexts, keyword_name, {})
                                          \cup {ctx}),
           keyword_transitions |-> CountTransition(an.keyword_transitions,
                                                   st.current_sequence, keyword_name),
           keyword_sequences   |-> IF boundary
                                   THEN CloseSequence(an.keyword_sequences, seq1)
                                   ELSE an.keyword_sequences],
        current_sequence |-> IF boundary THEN <<keyword_name>> ELSE seq1,
        current_context  |-> ctx]

RECURSIVE AnalyzeRecords(_, _, _)
AnalyzeRecords(st, kws, i) ==
    IF i > Len(kws) THEN st
    ELSE AnalyzeRecords(AnalyzeRecord(st, kws[i]), kws, i + 1)

\* the analyzer after analyze_output_file has run over the records kws
AnalyzeKeywords(an, kws) ==
    LET st == AnalyzeRecords([an |-> an, current_sequence |-> <<>>,
                              current_context |-> ""], kws, 1)
    IN IF st.current_sequence # <<>>
       THEN [st.an EXCEPT !.keyword_sequences = Append(@, st.current_sequence)]
       ELSE st.an

\* the analyzer after analyze_output_file: extract_keywords() runs first,
\* and the loop over the records only when it returned
AnalyzeWhatWasExtracted(an, out) ==
    AnalyzeKeywords(an, out.keywords)

analyze_output_file(an, out) ==
    IF out.kind = "ok" THEN AnalyzeKeywords(an, out.keywords) ELSE an

\* the analyzer held in the variables
Analyzer ==
    [keyword_sequences   |-> keyword_sequences,
     keyword_transitions |-> keyword_transitions,
     keyword_contexts    |-> keyword_contexts,
     library_keywords    |-> library_keywords,
     keyword_frequencies |-> keyword_frequencies,
     keyword_libraries   |-> keyword_libraries]

\* the variables take the analyzer value an
SetAnalyzer(an) ==
    /\ keyword_sequences'   = an.keyword_sequences
    /\ keyword_transitions' = an.keyword_transitions
    /\ keyword_contexts'    = an.keyword_contexts
    /\ library_keywords'    = an.library_keywords
    /\ keyword_frequencies' = an.keyword_frequencies
    /\ keyword_libraries'   = an.keyword_libraries

-----------------------------------------------------------------------------
(* Sorting, set iteration, strings, numbers.                               *)

\* list.sort(key, reverse=True) / sorted(..., reverse=True): stable, so items
\* with equal keys keep their order; gt[i][j] is key(seq[i]) > key(seq[j])
StableSortDesc(seq, gt) ==
    LET Insert(sorted, x) ==
            LET after == {i \in DOMAIN sorted : gt[x][sorted[i]]}
                p == IF after = {} THEN Len(sorted) + 1
                     ELSE CHOOSE i \in after : \A j \in after : i <= j
            IN SubSeq(sorted, 1, p - 1) \o <<x>> \o SubSeq(sorted, p, Len(sorted))
        order[i \in 0..Len(seq)] == IF i = 0 THEN <<>> ELSE Insert(order[i - 1], i)
    IN [k \in DOMAIN seq |-> seq[order[Len(seq)][k]]]

\* key = the count of a Counter item
ByCount(counter) ==
    [i \in DOMAIN counter |-> [j \in DOMAIN counter |-> counter[i][2] > counter[j][2]]]

\* seq[:n] for n >= 0
Take(seq, n) == SubSeq(seq, 1, IF n < Len(seq) THEN n ELSE Len(seq))

MostCommonOneShort(counter, n) ==
    Take(StableSortDesc(counter, ByCount(counter)), n - 1)

\* Counter.most_common(n): by count descending, ties in insertion order
MostCommon(counter, n) ==
    Take(StableSortDesc(counter, ByCount(counter)), n)

RECURSIVE SetToSeq(_)
SetToSeq(S) ==
    IF S = {} THEN <<>>
    ELSE LET x == CHOOSE y \in S : TRUE IN <<x>> \o SetToSeq(S \ {x})

Reverse(seq) == [i \in DOMAIN seq |-> seq[Len(seq) + 1 - i]]

\* The order in which a Python set of strings iterates follows the string
\* hashes, which differ from process to process: one order per seed.
SetIter(S, seed) == IF seed = 0 THEN SetToSeq(S) ELSE Reverse(SetToSeq(S))

\* the characters of the strings that are matched against each other
Chars(str) ==
    CASE str = ""       -> <<>>
      [] str = "log"    -> <<"l", "o", "g">>
      [] str = "LOG"    -> <<"L", "O", "G">>
      [] str = "Open"   -> <<"O", "p", "e", "n">>
      [] str = "Log"    -> <<"L", "o", "g">>
      [] str = "Log In" -> <<"L", "o", "g", " ", "I", "n">>
      [] str = "Click"  -> <<"C", "l", "i", "c", "k">>
      [] str = "Close"  -> <<"C", "l", "o", "s", "e">>
      [] str = "Never"  -> <<"N", "e", "v", "e", "r">>
      [] str = "kw"     -> <<"k", "w">>
      [] str = "test"   -> <<"t", "e", "s", "t">>
      [] str = "suite"  -> <<"s", "u", "i", "t", "e">>
      [] str = "none"   -> <<"n", "o", "n", "e">>

\* str.lower(), character by character
LowerChar(c) ==
    CASE c = "C" -> "c" [] c = "G" -> "g" [] c = "I" -> "i" [] c = "L" -> "l"
      [] c = "N" -> "n" [] c = "O" -> "o" [] OTHER -> c

Lower(chars) == [i \in DOMAIN chars |-> LowerChar(chars[i])]

\* a in b, for strings given by their characters
IsSubstring(a, b) ==
    \E start \in 0..(Len(b) - Len(a)) :
        \A i \in DOMAIN a : b[start + i] = a[i]

\* A float quotient num/den is kept as the pair <<num, den>>.
RatGt(a, b) == a[1] * b[2] > b[1] * a[2]

RatEq(a, b) == a[1] * b[2] = b[1] * a[2]

\* round(q, 3), in thousandths (ties to the even neighbour)
Round3(q) ==
    LET whole == (1000 * q[1]) \div q[2]
        rest  == (1000 * q[1]) % q[2]
    IN IF 2 * rest < q[2] THEN whole
       ELSE IF 2 * rest > q[2] THEN whole + 1
       ELSE IF whole % 2 = 0 THEN whole ELSE whole + 1

RECURSIVE TouchAll(_, _, _)
\* d[k] on a defaultdict for every k of keys, in order
TouchAll(d, keys, default) ==
    IF keys = <<>> THEN d
    ELSE TouchAll(DefaultDictTouch(d, keys[1], default), Tail(keys), default)

-----------------------------------------------------------------------------
(* KeywordPatternAnalyzer.get_recommendations                              *)

\* sum(transitions.values())
TotalIsDistinctCount(transitions) == Len(transitions)

TotalCount(transitions) == SumValues(transitions)

\* the keys of self.keyword_transitions the method subscripts, in order
RecommendSubscriptsUnguarded(an, current_keyword, max_recommendations) ==
    <<current_keyword>>

RecommendSubscripts(an, current_keyword, max_recommendations) ==
    IF DictHas(an.keyword_transitions, current_keyword)
    THEN LET common == MostCommon(DictAt(an.keyword_transitions, current_keyword),
                                  max_recommendations)
             nexts == [i \in DOMAIN common |-> common[i][1]]
         IN <<current_keyword>>
            \o SelectSeq(nexts, LAMBDA k : DictHas(an.keyword_transitions, k))
    ELSE <<>>

\* the candidates from the direct transitions
DirectCandidates(an, current_keyword, context, max_recommendations) ==
    IF DictHas(an.keyword_transitions, current_keyword)
    THEN LET transitions == DictAt(an.keyword_transitions, current_keyword)
             total_count == TotalCount(transitions)
             common == MostCommon(transitions, max_recommendations)
         IN [i \in DOMAIN common |->
               [keyword       |-> common[i][1],
                library       |-> DictGet(an.keyword_libraries, common[i][1], "BuiltIn"),
                confidence    |-> <<common[i][2], total_count>>,
                context       |-> context,
                usage_count   |-> common[i][2],
                next_keywords |->
                    IF DictHas(an.keyword_transitions, common[i][1])
                    THEN LET top == MostCommon(DictAt(an.keyword_transitions,
                                                      common[i][1]), 3)
                         IN [j \in DOMAIN top |-> top[j][1]]
                    ELSE <<>>]]
    ELSE <<>>

\* the candidates from the keyword's library, tried when there is no direct one
LibraryCandidatesDefaultBuiltIn(an, current_keyword, context, seed) ==
    LET current_library == DictGet(an.keyword_libraries, current_keyword, "BuiltIn")
        members == SetIter(DictGet(an.library_keywords, current_library, {}), seed)
        others == SelectSeq(members, LAMBDA k : k # current_keyword)
    IN [i \in DOMAIN others |->
          [keyword       |-> others[i],
           library       |-> current_library,
           confidence    |-> <<1, 10>>,
           context       |-> context,
           usage_count   |-> CounterAt(an.keyword_frequencies, others[i]),
           next_keywords |-> <<>>]]

LibraryCandidates(an, current_keyword, context, seed) ==
    IF DictHas(an.keyword_libraries, current_keyword)
    THEN LET current_library == DictAt(an.keyword_libraries, current_keyword)
             members == SetIter(DictGet(an.library_keywords, current_library, {}), seed)
             others == SelectSeq(members, LAMBDA k : k # current_keyword)
         IN [i \in DOMAIN others |->
               [keyword       |-> others[i],
                library       |-> current_library,
                confidence    |-> <<1, 10>>,
                context       |-> context,
                usage_count   |-> CounterAt(an.keyword_frequencies, others[i]),
                next_keywords |-> <<>>]]
    ELSE <<>>

\* key=(confidence, usage_count)
ConfidenceThenUsage(recs) ==
    [i \in DOMAIN recs |-> [j \in DOMAIN recs |->
        \/ RatGt(recs[i].confidence, recs[j].confidence)
        \/ /\ RatEq(recs[i].confidence, recs[j].confidence)
           /\ recs[i].usage_count > recs[j].usage_count]]

\* the list KeywordPatternAnalyzer.get_recommendations returns
AnalyzerRecommendations(an, current_keyword, context, max_recommendations, seed) ==
    LET direct == DirectCandidates(an, current_keyword, context, max_recommendations)
        recommendations ==
            IF direct = <<>>
            THEN LibraryCandidates(an, current_keyword, context, seed)
            ELSE direct
    IN Take(StableSortDesc(recommendations, ConfidenceThenUsage(recommendations)),
            max_recommendations)

\* RobotKeywordRecommender: the dicts handed to the caller
UserFriendly(recs) ==
    [i \in DOMAIN recs |->
        [keyword       |-> recs[i].keyword,
         library       |-> recs[i].library,
         confidence    |-> Round3(recs[i].confidence),
         context       |-> recs[i].context,
         usage_count   |-> recs[i].usage_count,
         next_keywords |-> recs[i].next_keywords]]

-----------------------------------------------------------------------------
(* KeywordPatternAnalyzer.get_autocomplete_suggestions                     *)

NoFilter == "<None>"

\* the (keyword, library) items that pass the filter and the match
AutocompleteMatches(an, partial_keyword, library_filter) ==
    SelectSeq(an.keyword_libraries,
              LAMBDA item :
                  /\ ~(library_filter # NoFilter /\ library_filter # ""
                       /\ item[2] # library_filter)
                  /\ IsSubstring(Lower(Chars(partial_keyword)), Lower(Chars(item[1]))))

\* key=(frequency, len(keyword))
FrequencyThenLength(suggestions) ==
    [i \in DOMAIN suggestions |-> [j \in DOMAIN suggestions |->
        \/ suggestions[i].frequency > suggestions[j].frequency
        \/ /\ suggestions[i].frequency = suggestions[j].frequency
           /\ Len(suggestions[i].keyword) > Len(suggestions[j].keyword)]]

AutocompleteSuggestions(an, partial_keyword, library_filter, seed) ==
    LET matches == AutocompleteMatches(an, partial_keyword, library_filter)
        suggestions ==
            [i \in DOMAIN matches |->
                [keyword   |-> matches[i][1],
                 library   |-> matches[i][2],
                 frequency |-> CounterAt(an.keyword_frequencies, matches[i][1]),
                 contexts  |-> SetIter(DictGet(an.keyword_contexts, matches[i][1], {}),
                                       seed)]]
    IN Take(StableSortDesc(suggestions, FrequencyThenLength(suggestions)), 20)

\* the keys of self.keyword_contexts the method subscripts
AutocompleteSubscripts(an, partial_keyword, library_filter) ==
    LET matches == AutocompleteMatches(an, partial_keyword, library_filter)
    IN [i \in DOMAIN matches |-> matches[i][1]]

-----------------------------------------------------------------------------
(* KeywordPatternAnalyzer.get_context_recommendations                      *)

\* sequence.index(kw)
IndexOfLast(sequence, kw) ==
    CHOOSE i \in DOMAIN sequence :
        /\ sequence[i] = kw
        /\ \A j \in (i + 1)..Len(sequence) : sequence[j] # kw

IndexOf(sequence, kw) ==
    CHOOSE i \in DOMAIN sequence :
        /\ sequence[i] = kw
        /\ \A j \in 1..(i - 1) : sequence[j] # kw

Max(S) == CHOOSE x \in S : \A y \in S : y <= x

\* the sequences that contain all context keywords
MatchingSequences(an, context_keywords) ==
    SelectSeq(an.keyword_sequences,
              LAMBDA sequence : \A i \in DOMAIN context_keywords :
                                   context_keywords[i] \in Range(sequence))

RECURSIVE NextKeywordCounts(_, _, _)
\* the Counter of the keywords that follow the last context keyword
NextKeywordCounts(matching, context_keywords, counts) ==
    IF matching = <<>> THEN counts
    ELSE LET sequence == matching[1]
             last_context_pos ==
                 Max({IndexOf(sequence, context_keywords[i]) :
                        i \in DOMAIN context_keywords})
         IN NextKeywordCounts(Tail(matching), context_keywords,
                IF last_context_pos + 1 <= Len(sequence)
                THEN CounterInc(counts, sequence[last_context_pos + 1])
                ELSE counts)

\* " -> ".join(context_keywords)
ArrowJoin(names) ==
    LET f[i \in 0..Len(names)] ==
            IF i = 0 THEN ""
            ELSE IF i = 1 THEN names[1]
            ELSE f[i - 1] \o " -> " \o names[i]
    IN f[Len(names)]

ContextRecommendations(an, context_keywords, max_recommendations) ==
    IF context_keywords = <<>> THEN <<>>
    ELSE LET matching == MatchingSequences(an, context_keywords)
         IN IF matching = <<>> THEN <<>>
            ELSE LET counts == NextKeywordCounts(matching, context_keywords, <<>>)
                     total_count == SumValues(counts)
                     common == MostCommon(counts, max_recommendations)
                 IN [i \in DOMAIN common |->
                       [keyword       |-> common[i][1],
                        library       |-> DictGet(an.keyword_libraries, common[i][1],
                                                  "BuiltIn"),
                        confidence    |-> <<common[i][2], total_count>>,
                        context       |-> ArrowJoin(context_keywords),
                        usage_count   |-> common[i][2],
                        next_keywords |-> <<>>]]

-----------------------------------------------------------------------------
(* RobotKeywordRecommender.get_popular_keywords, get_library_statistics    *)

RECURSIVE PopularFrom(_, _, _, _, _)
\* the loop over the most common keywords, left at limit results
PopularFrom(an, common, library, limit, acc) ==
    IF common = <<>> THEN acc
    ELSE LET keyword_library == DictGet(an.keyword_libraries, common[1][1], "BuiltIn")
         IN IF library = NoFilter \/ keyword_library = library
            THEN LET acc1 == Append(acc, [keyword   |-> common[1][1],
                                          library   |-> keyword_library,
                                          frequency |-> common[1][2]])
                 IN IF Len(acc1) >= limit THEN acc1
                    ELSE PopularFrom(an, Tail(common), library, limit, acc1)
            ELSE PopularFrom(an, Tail(common), library, limit, acc)

PopularKeywords(an, library, limit) ==
    PopularFrom(an, MostCommon(an.keyword_frequencies, limit * 2), library, limit, <<>>)

\* stats as a dict library -> entry, in the order of self.library_keywords
LibraryStatistics(an, seed) ==
    [i \in DOMAIN an.library_keywords |->
        LET members == SetIter(an.library_keywords[i][2], seed)
            usage == [j \in DOMAIN members |->
                        <<members[j], CounterAt(an.keyword_frequencies, members[j])>>]
            top == MostCommon(usage, 5)
        IN <<an.library_keywords[i][1],
             [keyword_count |-> Len(members),
              total_usage   |-> SumValues(usage),
              top_keywords  |-> [j \in DOMAIN top |->
                                   [keyword |-> top[j][1],
                                    count   |-> CounterAt(an.keyword_frequencies,
                                                          top[j][1])]]]>>]

-----------------------------------------------------------------------------
(* KeywordPatternAnalyzer.save_model, load_model                           *)

\* {k: list(v) for k, v in d.items()}
SetsToLists(d, seed) == [i \in DOMAIN d |-> <<d[i][1], SetIter(d[i][2], seed)>>]

\* {k: set(v) for k, v in d.items()}
ListsToSets(d) == [i \in DOMAIN d |-> <<d[i][1], Range(d[i][2])>>]

\* model_data as pickled by save_model
ModelData(an, seed) ==
    [keyword_transitions |-> an.keyword_transitions,
     keyword_contexts    |-> SetsToLists(an.keyword_contexts, seed),
     library_keywords    |-> SetsToLists(an.library_keywords, seed),
     keyword_frequencies |-> an.keyword_frequencies,
     keyword_libraries   |-> an.keyword_libraries,
     keyword_sequences   |-> an.keyword_sequences]

LoadKeepsSequences(an, model_data) ==
    [keyword_transitions |-> model_data.keyword_transitions,
     keyword_contexts    |-> ListsToSets(model_data.keyword_contexts),
     library_keywords    |-> ListsToSets(model_data.library_keywords),
     keyword_frequencies |-> model_data.keyword_frequencies,
     keyword_libraries   |-> model_data.keyword_libraries,
     keyword_sequences   |-> an.keyword_sequences]

\* the analyzer an after load_model has read model_data
LoadedAnalyzer(an, model_data) ==
    [keyword_transitions |-> model_data.keyword_transitions,
     keyword_contexts    |-> ListsToSets(model_data.keyword_contexts),
     library_keywords    |-> ListsToSets(model_data.library_keywords),
     keyword_frequencies |-> model_data.keyword_frequencies,
     keyword_libraries   |-> model_data.keyword_libraries,
     keyword_sequences   |-> model_data.keyword_sequences]

-----------------------------------------------------------------------------
(* LogHTMLExtractor                                                        *)
(* A JSON value as json.loads returns it: a dict (<<key, value>> pairs), a *)
(* list, a str or a number, each tagged with its Python type.              *)

JDict(items) == [t |-> "dict", v |-> items]
JList(items) == [t |-> "list", v |-> items]
JStr(str)    == [t |-> "str",  v |-> str]
JNum(n)      == [t |-> "num",  v |-> n]

\* x if isinstance(x, list) else [x]
AsList(x) == IF x.t = "list" THEN x.v ELSE <<x>>

\* f"{x}" of a value used as a name
JText(x) == IF x.t = "str" THEN x.v ELSE "<value>"

\* `key in x`: "yes", "no", or the exception the operator raises
KeyIn(key, x) ==
    CASE x.t = "dict" -> IF DictHas(x.v, key) THEN "yes" ELSE "no"
      [] x.t = "list" -> IF \E i \in DOMAIN x.v : x.v[i].t = "str" /\ x.v[i].v = key
                         THEN "yes" ELSE "no"
      [] x.t = "str"  -> IF IsSubstring(Chars(key), Chars(x.v)) THEN "yes" ELSE "no"
      [] OTHER        -> "TypeError"

\* `if key in x: ... x[key]`: whether the branch is taken and what x[key]
\* is, or the exception raised by `in` or by the subscript
Lookup(x, key) ==
    LET found == KeyIn(key, x)
    IN IF found = "TypeError" THEN [error |-> "TypeError", present |-> FALSE]
       ELSE IF found = "no" THEN [error |-> "", present |-> FALSE]
       ELSE IF x.t = "dict"
            THEN [error |-> "", present |-> TRUE, value |-> DictAt(x.v, key)]
            ELSE [error |-> "TypeError", present |-> FALSE]

\* x.get(key, default) of a dict; anything else has no attribute get
HasGet(x) == x.t = "dict"

\* The extractor while it runs: self.keywords, self.execution_order and the
\* exception under way ("" when none).
Raise(st, error) == [st EXCEPT !.error = error]

\* self.execution_order += 1
BumpOrder(execution) == execution + 1

\* kw.get('name', 'Unknown') as it is formatted into names
KeywordName(kw) == JText(DictGet(kw.v, "name", JStr("Unknown")))

\* the record extract_keyword appends; path is history, as in KeywordInfo
HtmlKeywordInfo(kw, parent_name, level, test_name, path, execution) ==
    [name            |-> KeywordName(kw),
     type            |-> JText(DictGet(kw.v, "type", JStr("keyword"))),
     library         |-> IF DictHas(kw.v, "libname")
                         THEN JText(DictAt(kw.v, "libname")) ELSE "",
     level           |-> level,
     parent          |-> parent_name,
     test_name       |-> test_name,
     status          |-> IF DictHas(kw.v, "status") /\ DictAt(kw.v, "status").t = "dict"
                         THEN JText(DictGet(DictAt(kw.v, "status").v, "status",
                                            JStr("UNKNOWN")))
                         ELSE "UNKNOWN",
     execution_order |-> execution,
     path            |-> path]

\* self.execution_order += 1; self.keywords.append(keyword_info)
Appended(st, kw, parent_name, level, test_name, path) ==
    [keywords        |-> Append(st.keywords,
                                HtmlKeywordInfo(kw, parent_name, level, test_name, path,
                                                BumpOrder(st.execution_order))),
     execution_order |-> BumpOrder(st.execution_order),
     error           |-> ""]

\* current_parent = f"{parent_name}.{keyword_name}" if parent_name else keyword_name
HtmlCurrentParent(parent_name, keyword_name) ==
    IF parent_name # "" THEN parent_name \o "." \o keyword_name ELSE keyword_name

RECURSIVE extract_keyword(_, _, _, _, _, _)
RECURSIVE EachKeyword(_, _, _, _, _, _, _)

\* for kw in keywords: self.extract_keyword(kw, parent_name, level, test_name)
EachKeyword(kws, k, parent_name, level, test_name, path, st) ==
    IF k > Len(kws) THEN st
    ELSE EachKeyword(kws, k + 1, parent_name, level, test_name, path,
                     extract_keyword(kws[k], parent_name, level, test_name, path, st))

\* the loop over found, the outcome of `if 'kw' in x: ... x['kw']`
KeywordsFound(found, parent_name, level, test_name, path, st) ==
    IF found.error # "" THEN Raise(st, found.error)
    ELSE IF found.present
    THEN EachKeyword(AsList(found.value), 1, parent_name, level, test_name, path, st)
    ELSE st

\* if 'kw' in x: the loop over x['kw'], as a list
KeywordsOf(x, parent_name, level, test_name, path, st) ==
    IF st.error # "" THEN st
    ELSE KeywordsFound(Lookup(x, "kw"), parent_name, level, test_name, path, st)

extract_keyword(kw, parent_name, level, test_name, path, st) ==
    IF st.error # "" THEN st
    ELSE IF ~HasGet(kw) THEN Raise(st, "AttributeError")
    ELSE KeywordsOf(kw, HtmlCurrentParent(parent_name, KeywordName(kw)), level + 1,
                    test_name, Append(path, <<"kw", KeywordName(kw)>>),
                    Appended(st, kw, parent_name, level, test_name, path))

\* test.get('name', 'Unknown Test')
TestName(test) == JText(DictGet(test.v, "name", JStr("Unknown Test")))

\* The loop over the tests of a suite; loop holds the extractor and the
\* local test_name, which every test rebinds.
Loop(st, test_name) == [st |-> st, test_name |-> test_name]

RECURSIVE OverTests(_, _, _, _, _, _)
OverTests(tests, i, parent_name, level, path, loop) ==
    IF i > Len(tests) \/ loop.st.error # "" THEN loop
    ELSE IF ~HasGet(tests[i]) THEN Loop(Raise(loop.st, "AttributeError"), loop.test_name)
    ELSE OverTests(tests, i + 1, parent_name, level, path,
                   Loop(KeywordsOf(tests[i], parent_name, level, TestName(tests[i]),
                                   Append(path, <<"test", TestName(tests[i])>>), loop.st),
                        TestName(tests[i])))

TestsFound(found, parent_name, level, test_name, path, st) ==
    IF found.error # "" THEN Loop(Raise(st, found.error), test_name)
    ELSE IF found.present
    THEN OverTests(AsList(found.value), 1, parent_name, level, path, Loop(st, test_name))
    ELSE Loop(st, test_name)

\* if 'test' in suite: the loop over suite['test'], as a list
TestsOf(suite, parent_name, level, test_name, path, st) ==
    IF st.error # "" THEN Loop(st, test_name)
    ELSE TestsFound(Lookup(suite, "test"), parent_name, level, test_name, path, st)

RECURSIVE extract_from_suite(_, _, _, _, _, _)
RECURSIVE EachSuite(_, _, _, _, _, _, _)

\* for nested_suite in nested_suites: self.extract_from_suite(nested_suite, ...)
EachSuite(suites, k, parent_name, level, test_name, path, st) ==
    IF k > Len(suites) THEN st
    ELSE EachSuite(suites, k + 1, parent_name, level, test_name, path,
                   extract_from_suite(suites[k], parent_name, level, test_name, path, st))

SuitesFound(found, parent_name, level, test_name, path, st) ==
    IF found.error # "" THEN Raise(st, found.error)
    ELSE IF found.present
    THEN EachSuite(AsList(found.value), 1, parent_name, level, test_name, path, st)
    ELSE st

\* if 'suite' in x: the loop over x['suite'], as a list, with test_name as
\* the code before it left it
SuitesOf(x, parent_name, level, path, loop) ==
    IF loop.st.error # "" THEN loop.st
    ELSE SuitesFound(Lookup(x, "suite"), parent_name, level, loop.test_name, path,
                     loop.st)

\* path extended by the suite entered (history)
SuitePath(path, suite) ==
    Append(path, <<"suite", IF suite.t = "dict"
                            THEN JText(DictGet(suite.v, "name", JStr(""))) ELSE "">>)

\* the suite's own keywords, then its tests, then its nested suites
extract_from_suite(suite, parent_name, level, test_name, path, st) ==
    SuitesOf(suite, parent_name, level, SuitePath(path, suite),
        TestsOf(suite, parent_name, level, test_name, SuitePath(path, suite),
            KeywordsOf(suite, parent_name, level, test_name, SuitePath(path, suite),
                       st)))

\* data is the dict json.loads returned
process_robot_data(data, st) ==
    IF ~DictHas(data.v, "robot") THEN st
    ELSE SuitesOf(DictAt(data.v, "robot"), "", 0, <<>>, Loop(st, ""))

\* What a pattern finds in the text: a candidate is no match, a match that
\* json.loads rejects (JSONDecodeError), or a match with the dict it loads.
NoMatch       == [match |-> FALSE]
InvalidJson   == [match |-> TRUE, json |-> "invalid"]
Loads(data)   == [match |-> TRUE, json |-> "ok", data |-> data]

\* A document: the match of pattern 1 (var output = {...};), the matches of
\* pattern 2 (objects with a "robot" key), the matches of pattern 3 (objects
\* in script tags), and the names in the keyword rows of its tables.
Document(var_output, robot_objects, script_objects, rows) ==
    [var_output     |-> var_output,
     robot_objects  |-> robot_objects,
     script_objects |-> script_objects,
     rows           |-> rows]

RECURSIVE FirstRobot(_, _)
\* the loops of patterns 2 and 3: the index of the first candidate that
\* loads and has a "robot" key, 0 when there is none
FirstRobot(candidates, i) ==
    IF i > Len(candidates) THEN 0
    ELSE IF candidates[i].json = "ok" /\ DictHas(candidates[i].data.v, "robot") THEN i
    ELSE FirstRobot(candidates, i + 1)

RECURSIVE extract_from_html_tables(_, _)
extract_from_html_tables(rows, st) ==
    IF rows = <<>> THEN st
    ELSE extract_from_html_tables(Tail(rows),
            IF rows[1] # ""
            THEN LET execution == BumpOrder(st.execution_order)
                 IN [st EXCEPT !.execution_order = execution,
                               !.keywords = Append(@,
                                   [name |-> rows[1], type |-> "keyword", library |-> "",
                                    level |-> 0, parent |-> "", test_name |-> "",
                                    status |-> "UNKNOWN", execution_order |-> execution,
                                    path |-> <<>>])]
            ELSE st)

\* the candidate the strategies settle on: the match of pattern 1 when it
\* loads, else the first match of pattern 2, else of pattern 3, that loads
\* and has a "robot" key; <<>> when there is none
Settled(doc) ==
    IF doc.var_output.match /\ doc.var_output.json = "ok" THEN <<doc.var_output>>
    ELSE IF FirstRobot(doc.robot_objects, 1) # 0
    THEN <<doc.robot_objects[FirstRobot(doc.robot_objects, 1)]>>
    ELSE IF FirstRobot(doc.script_objects, 1) # 0
    THEN <<doc.script_objects[FirstRobot(doc.script_objects, 1)]>>
    ELSE <<>>

\* the strategies in turn: the candidate settled on is processed and the
\* method returns; without one the keyword rows are tried, when the object
\* holds no records yet
extract_from_html_content(doc, st) ==
    IF Len(Settled(doc)) > 0 THEN process_robot_data(Settled(doc)[1].data, st)
    ELSE IF st.keywords = <<>> THEN extract_from_html_tables(doc.rows, st)
    ELSE st

\* outcome of LogHTMLExtractor.extract_keywords() on a readable file:
\* "ok", or "error" with what the object holds when the exception leaves
HtmlExtractOutcome(doc, kws, execution) ==
    LET st == extract_from_html_content(doc, [keywords |-> kws,
                                              execution_order |-> execution,
                                              error |-> ""])
    IN [kind |-> IF st.error = "" THEN "ok" ELSE "error",
        error |-> st.error,
        keywords |-> st.keywords,
        execution_order |-> st.execution_order]

-----------------------------------------------------------------------------
(* Documents the extractor is run on.                                      *)

GenNames == {"A", "B"}

MaxSuiteChildren == 2

\* keyword nodes: a leaf, or a keyword holding one leaf
GenKws ==
    {Kw(n, <<>>) : n \in GenNames}
    \cup {Kw("A", <<Kw("B", <<>>)>>)}

\* tests: one keyword node, or two leaves
GenTests ==
    {Test("T", <<k>>) : k \in GenKws}
    \cup {Test("T", <<Kw("A", <<>>), Kw("B", <<>>)>>)}

GenInnerSuites == {Suite("Inner", <<x>>) : x \in GenKws \cup GenTests}

GenOuterSuites ==
    {Suite("Outer", cs) :
        cs \in UNION {[1..k -> GenKws \cup GenTests \cup GenInnerSuites] :
                        k \in 1..MaxSuiteChildren}}

MissingFile   == [kind |-> "missing"]
MalformedFile == [kind |-> "malformed"]
DeepFile      == [kind |-> "deep",
                  root |-> Robot(<<Suite("Deep", <<Test("T",
                               <<Kw("A", <<Kw("A", <<>>)>>)>>)>>)>>)]
\* well-formed XML without any robot element
NoRobotFile   == FileOf(Elem("html", NoAttrs, <<Elem("body", NoAttrs, <<>>)>>))
\* a robot element below another root
WrappedFile   == FileOf(Elem("results", NoAttrs,
                     <<Robot(<<Suite("S", <<Test("T", <<Kw("A", <<Kw("B", <<>>)>>)>>)>>)>>)>>))

BadFiles == {MissingFile, MalformedFile, DeepFile, NoRobotFile}

GenFiles == {FileOf(Robot(<<s>>)) : s \in GenOuterSuites} \cup {WrappedFile} \cup BadFiles

\* calls of extract_keywords made on one extractor object
MaxCalls == 2

\* The log.html of the same run: the suite/test/keyword tree of the
\* output.xml as the object pattern 1 finds, a single child as a dict and
\* several as a list.
OneOrList(items) == IF Len(items) = 1 THEN items[1] ELSE JList(items)

ChildrenTagged(element, tag) == SelectSeq(element.children, LAMBDA c : c.tag = tag)

\* the item for the children with that tag, under key, when there are any
Keyed(key, items) == IF items = <<>> THEN <<>> ELSE <<<<key, OneOrList(items)>>>>

RECURSIVE TreeToJson(_)
TreeToJson(element) ==
    LET Each(tag) == [i \in DOMAIN ChildrenTagged(element, tag) |->
                        TreeToJson(ChildrenTagged(element, tag)[i])]
        attr(key, json_key) == IF key \in DOMAIN element.attrs
                         THEN <<<<json_key, JStr(element.attrs[key])>>>> ELSE <<>>
    IN CASE element.tag = "kw" ->
              JDict(attr("name", "name") \o attr("type", "type")
                    \o attr("library", "libname")
                    \o (IF Find(element, "status") # NoElem
                        THEN <<<<"status",
                                 JDict(<<<<"status",
                                           JStr(AttrGet(Find(element, "status"),
                                                        "status", "UNKNOWN"))>>>>)>>>>
                        ELSE <<>>)
                    \o Keyed("kw", Each("kw")))
         [] element.tag = "test" ->
              JDict(attr("name", "name") \o Keyed("kw", Each("kw")))
         [] OTHER ->
              JDict(attr("name", "name") \o Keyed("kw", Each("kw"))
                    \o Keyed("test", Each("test")) \o Keyed("suite", Each("suite")))

NoMatchDoc == Document(NoMatch, <<>>, <<>>, <<>>)

LogHtmlOf(file) ==
    IF file.kind = "xml" /\ RobotElem(file.root) # NoElem
    THEN Document(Loads(JDict(<<<<"robot", TreeToJson(RobotElem(file.root))>>>>)),
                  <<>>, <<>>, <<>>)
    ELSE NoMatchDoc

\* Other documents handed to the LogHTMLExtractor.
\* keyword rows only
RowsDoc == Document(NoMatch, <<>>, <<>>, <<"A", "", "B">>)
\* var output = {"robot": oops}; and keyword rows
InvalidThenRowsDoc == Document(InvalidJson, <<>>, <<>>, <<"A", "B">>)
\* var output = {"robot": {}}; and keyword rows
EmptyRobotDoc == Document(Loads(JDict(<<<<"robot", JDict(<<>>)>>>>)), <<>>, <<>>, <<"A">>)
\* var output = {"robot": 5};
RobotNumberDoc == Document(Loads(JDict(<<<<"robot", JNum(5)>>>>)), <<>>, <<>>, <<"A">>)
\* var output = {"robot": {"suite": {"kw": ["A"]}}};
KwStringDoc ==
    Document(Loads(JDict(<<<<"robot",
        JDict(<<<<"suite", JDict(<<<<"kw", JList(<<JStr("A")>>)>>>>)>>>>)>>>>)),
        <<>>, <<>>, <<>>)
\* var output = {"robot": {"suite": {"kw": [{"name": "A"}, 7]}}};
KwNumberDoc ==
    Document(Loads(JDict(<<<<"robot",
        JDict(<<<<"suite", JDict(<<<<"kw",
            JList(<<JDict(<<<<"name", JStr("A")>>>>), JNum(7)>>)>>>>)>>>>)>>>>)),
        <<>>, <<>>, <<>>)
\* no var output; {"robot": {oops}} then {"robot": {"suite": "none"}}
SuiteStringDoc ==
    Document(NoMatch,
             <<InvalidJson,
               Loads(JDict(<<<<"robot", JDict(<<<<"suite", JStr("none")>>>>)>>>>))>>,
             <<>>, <<"A">>)
\* a script object that mentions "robot" without having the key, then one
\* holding a keyword; keyword rows
ScriptDoc ==
    Document(NoMatch, <<>>,
             <<Loads(JDict(<<<<"title", JStr("robot")>>>>)),
               Loads(JDict(<<<<"robot",
                   JDict(<<<<"suite", JDict(<<<<"kw",
                       JDict(<<<<"name", JStr("B")>>>>)>>>>)>>>>)>>>>))>>,
             <<"A">>)
\* a script object without the key only: keyword rows are used
ScriptMissDoc ==
    Document(NoMatch, <<>>, <<Loads(JDict(<<<<"title", JStr("robot")>>>>))>>, <<"A", "B">>)

\* the paths handed to LogHTMLExtractor: the log.html of the run that wrote
\* the output.xml, and the other documents
OddDocuments == {"empty.html", "rows.html", "invalid.html", "norobot.html",
                 "number.html", "kwstring.html", "kwnumber.html", "suitestring.html",
                 "script.html", "scriptmiss.html"}

\* what the patterns find in the text of the file; output is the output.xml
\* of the run
HtmlContent(path, output) ==
    CASE path = "log.html"         -> LogHtmlOf(output)
      [] path = "empty.html"       -> NoMatchDoc
      [] path = "rows.html"        -> RowsDoc
      [] path = "invalid.html"     -> InvalidThenRowsDoc
      [] path = "norobot.html"     -> EmptyRobotDoc
      [] path = "number.html"      -> RobotNumberDoc
      [] path = "kwstring.html"    -> KwStringDoc
      [] path = "kwnumber.html"    -> KwNumberDoc
      [] path = "suitestring.html" -> SuiteStringDoc
      [] path = "script.html"      -> ScriptDoc
      [] path = "scriptmiss.html"  -> ScriptMissDoc

-----------------------------------------------------------------------------
(* Logs the recommender is trained on.                                     *)

Passed == <<Status("PASS")>>

\* one test: Open (setup) holding Log, then Click, then Close (teardown)
SetupTeardownLog ==
    FileOf(Robot(<<Suite("Login", <<Test("Valid Login",
        <<KwFull("Open", "SETUP", "SeleniumLibrary",
                 <<KwFull("Log", "KEYWORD", "BuiltIn", Passed), Status("PASS")>>),
          KwFull("Click", "KEYWORD", "SeleniumLibrary", Passed),
          KwFull("Close", "TEARDOWN", "SeleniumLibrary", Passed)>>)>>)>>))

\* Open Click Open Click
OpenClickTwiceLog ==
    FileOf(Robot(<<Suite("Smoke", <<Test("Twice",
        <<KwFull("Open", "KEYWORD", "SeleniumLibrary", <<>>),
          KwFull("Click", "KEYWORD", "SeleniumLibrary", <<>>),
          KwFull("Open", "KEYWORD", "SeleniumLibrary", <<>>),
          KwFull("Click", "KEYWORD", "SeleniumLibrary", <<>>)>>)>>)>>))

\* Open Click Open Log
OpenClickOpenLogLog ==
    FileOf(Robot(<<Suite("Smoke", <<Test("Mixed",
        <<KwFull("Open", "KEYWORD", "SeleniumLibrary", <<>>),
          KwFull("Click", "KEYWORD", "SeleniumLibrary", <<>>),
          KwFull("Open", "KEYWORD", "SeleniumLibrary", <<>>),
          KwFull("Log", "KEYWORD", "BuiltIn", <<>>)>>)>>)>>))

\* Open followed once each by Click, Close and Log In
ThreeSuccessorsLog ==
    FileOf(Robot(<<Suite("Smoke", <<Test("Fan",
        <<KwFull("Open", "KEYWORD", "SeleniumLibrary", <<>>),
          KwFull("Click", "KEYWORD", "SeleniumLibrary", <<>>),
          KwFull("Open", "KEYWORD", "SeleniumLibrary", <<>>),
          KwFull("Close", "KEYWORD", "SeleniumLibrary", <<>>),
          KwFull("Open", "KEYWORD", "SeleniumLibrary", <<>>),
          KwFull("Log In", "KEYWORD", "Custom", <<>>)>>)>>)>>))

\* Log and Log In, both of library Custom, once each
CustomLibraryLog ==
    FileOf(Robot(<<Suite("Custom", <<Test("Aliases",
        <<KwFull("Log", "KEYWORD", "Custom", Passed),
          KwFull("Log In", "KEYWORD", "Custom", Passed)>>)>>)>>))

\* a suite nested in a suite, suite-level setup and teardown, a keyword
\* without library attribute
NestedSuiteLog ==
    FileOf(Robot(<<Suite("Outer",
        <<KwFull("Open", "SETUP", "SeleniumLibrary", <<>>),
          Suite("Inner", <<Test("Deep", <<Kw("Log", <<>>),
                                          KwFull("Click", "KEYWORD", "SeleniumLibrary", <<>>)>>)>>),
          KwFull("Close", "TEARDOWN", "SeleniumLibrary", <<>>)>>)>>))

\* keywords at levels 0, 1, 1 and 2; the second level-1 keyword is the
\* teardown of the level-0 keyword
DeepKeywordLog ==
    FileOf(Robot(<<Suite("Flow", <<Test("Steps",
        <<KwFull("Log In", "KEYWORD", "Custom",
                 <<KwFull("Open", "KEYWORD", "SeleniumLibrary", <<>>),
                   KwFull("Click", "TEARDOWN", "SeleniumLibrary",
                          <<KwFull("Log", "KEYWORD", "BuiltIn", <<>>)>>)>>)>>)>>)>>))

\* the paths handed to train_on_output_files, and what each file holds
GoodFiles == {"login.xml", "twice.xml", "mixed.xml", "fan.xml", "custom.xml",
              "nested.xml", "steps.xml"}

Files == GoodFiles \cup {"missing.xml", "malformed.xml", "report.xml", "deep.xml"}

Content(output_file) ==
    CASE output_file = "login.xml"     -> SetupTeardownLog
      [] output_file = "twice.xml"     -> OpenClickTwiceLog
      [] output_file = "mixed.xml"     -> OpenClickOpenLogLog
      [] output_file = "fan.xml"       -> ThreeSuccessorsLog
      [] output_file = "custom.xml"    -> CustomLibraryLog
      [] output_file = "nested.xml"    -> NestedSuiteLog
      [] output_file = "steps.xml"     -> DeepKeywordLog
      [] output_file = "missing.xml"   -> MissingFile
      [] output_file = "malformed.xml" -> MalformedFile
      [] output_file = "report.xml"    -> NoRobotFile
      [] output_file = "deep.xml"      -> DeepFile

\* files one run hands to analyze_output_file, in all
MaxProcessed == 2

-----------------------------------------------------------------------------
(* The analyzer and process state after construction.                      *)

NoFile == [present |-> FALSE]
NoResult == [op |-> "none"]
NoLog == [kind |-> "none"]

ExtractorInit ==
    /\ keywords = <<>>
    /\ xstate = "new"
    /\ returns = <<>>
    /\ html_keywords = <<>>
    /\ execution_order = 0
    /\ hstate = "new"
    /\ html_returns = <<>>
Seeds == {0, 1}

AnalyzerInit ==
    /\ keyword_sequences = <<>>
    /\ keyword_transitions = <<>>
    /\ keyword_contexts = <<>>
    /\ library_keywords = <<>>
    /\ keyword_frequencies = <<>>
    /\ keyword_libraries = <<>>

ProcessInit ==
    /\ pc = "idle"
    /\ pending = <<>>
    /\ save_after = FALSE
    /\ hash_seed \in Seeds
    /\ model_file = NoFile
    /\ result = NoResult
    /\ nProcessed = 0
    /\ trained = <<>>
    /\ just_loaded = FALSE
    /\ saved = NoFile

-----------------------------------------------------------------------------
(* Specification of the extractors: RobotKeywordExtractor(output.xml) and  *)
(* LogHTMLExtractor(log.html), one object of each, and the calls of        *)
(* extract_keywords() on them.  The log.html is that of the same run, or   *)
(* some other document.                                                    *)

InitExtract ==
    /\ \/ /\ log \in GenFiles
          /\ log_file = "log.html"
       \/ /\ log = MissingFile
          /\ log_file \in OddDocuments
    /\ ExtractorInit
    /\ AnalyzerInit
    /\ ProcessInit
    /\ hash_seed = 0

\* RobotKeywordExtractor.extract_keywords()
extract_keywords ==
    /\ xstate \in {"new", "returned"}
    /\ Len(returns) < MaxCalls
    /\ LET out == ExtractOutcome(log, keywords)
       IN /\ keywords' = out.keywords
          /\ xstate' = CASE out.kind = "ok"   -> "returned"
                         [] out.kind = "exit" -> "exited"
                         [] OTHER             -> "raised"
          /\ returns' = IF out.kind = "ok" THEN Append(returns, out.keywords)
                         ELSE returns
    /\ UNCHANGED <<log, log_file, html_keywords, execution_order, hstate,
                   html_returns, analyzerVars, processVars, historyVars>>

\* LogHTMLExtractor.extract_keywords()
html_extract_keywords ==
    /\ hstate \in {"new", "returned"}
    /\ Len(html_returns) < MaxCalls
    /\ LET out == HtmlExtractOutcome(HtmlContent(log_file, log), html_keywords,
                                     execution_order)
       IN /\ html_keywords' = out.keywords
          /\ execution_order' = out.execution_order
          /\ hstate' = IF out.kind = "ok" THEN "returned" ELSE "raised"
          /\ html_returns' = IF out.kind = "ok"
                              THEN Append(html_returns, out.keywords)
                              ELSE html_returns
    /\ UNCHANGED <<log, log_file, keywords, xstate, returns,
                   analyzerVars, processVars, historyVars>>

NextExtract ==
    \/ extract_keywords
    \/ html_extract_keywords

SpecExtract == InitExtract /\ [][NextExtract]_vars

-----------------------------------------------------------------------------
(* RobotKeywordRecommender.train_on_output_files                           *)

\* a process starts (or a new recommender is built in the running one):
\* RobotKeywordRecommender() holds a fresh KeywordPatternAnalyzer
Construct ==
    /\ pc \in {"idle", "exited"}
    /\ pc' = "idle"
    /\ SetAnalyzer(EmptyAnalyzer)
    /\ hash_seed' \in Seeds
    /\ pending' = <<>>
    /\ save_after' = FALSE
    /\ result' = NoResult
    /\ trained' = <<>>
    /\ just_loaded' = FALSE
    /\ UNCHANGED <<extractorVars, model_file, nProcessed, saved>>

\* train_on_output_files(output_files, save_model) is called
TrainStart ==
    /\ pc = "idle"
    /\ \E n \in 1..(MaxProcessed - nProcessed) :
         \E output_files \in [1..n -> Files] :
            pending' = output_files
    /\ save_after' \in BOOLEAN
    /\ pc' = "training"
    /\ result' = NoResult
    /\ just_loaded' = FALSE
    /\ UNCHANGED <<extractorVars, analyzerVars, hash_seed, model_file,
                   nProcessed, trained, saved>>

\* the loop's except clause: Exception and its subclasses, which
\* SystemExit is not
Caught(kind) == kind = "error"

\* one iteration of the loop: analyze_output_file on a new extractor
AnalyzeOutputFile ==
    /\ pc = "training"
    /\ pending # <<>>
    /\ LET out == ExtractOutcome(Content(Head(pending)), <<>>)
       IN /\ SetAnalyzer(analyze_output_file(Analyzer, out))
          /\ \/ /\ out.kind = "ok"
                /\ trained' = Append(trained, Head(pending))
                /\ pc' = pc
             \/ /\ out.kind # "ok"
                /\ Caught(out.kind)
                /\ UNCHANGED trained
                /\ pc' = pc
             \/ /\ out.kind # "ok"
                /\ ~Caught(out.kind)
                /\ UNCHANGED trained
                /\ pc' = "exited"
    /\ pending' = Tail(pending)
    /\ nProcessed' = nProcessed + 1
    /\ just_loaded' = FALSE
    /\ UNCHANGED <<extractorVars, save_after, hash_seed, model_file, result, saved>>

\* what save_model leaves on disk
Saving ==
    /\ model_file' = [present |-> TRUE, data |-> ModelData(Analyzer, hash_seed)]
    /\ saved' = [present |-> TRUE, an |-> Analyzer, seed |-> hash_seed,
                 trained |-> trained]

\* the loop is over: the model is saved when a path was given
TrainEnd ==
    /\ pc = "training"
    /\ pending = <<>>
    /\ IF save_after THEN Saving ELSE UNCHANGED <<model_file, saved>>
    /\ pc' = "idle"
    /\ save_after' = FALSE
    /\ just_loaded' = FALSE
    /\ UNCHANGED <<extractorVars, analyzerVars, pending, hash_seed, result,
                   nProcessed, trained>>

\* analyzer.save_model(path)
SaveModel ==
    /\ pc = "idle"
    /\ Saving
    /\ result' = NoResult
    /\ just_loaded' = FALSE
    /\ UNCHANGED <<extractorVars, analyzerVars, pc, pending, save_after, hash_seed,
                   nProcessed, trained>>

\* analyzer.load_model(path) of a file save_model wrote
LoadModel ==
    /\ pc = "idle"
    /\ model_file.present
    /\ SetAnalyzer(LoadedAnalyzer(Analyzer, model_file.data))
    /\ trained' = saved.trained
    /\ result' = NoResult
    /\ just_loaded' = TRUE
    /\ UNCHANGED <<extractorVars, pc, pending, save_after, hash_seed, model_file,
                   nProcessed, saved>>

-----------------------------------------------------------------------------
(* The queries of RobotKeywordRecommender.                                 *)

QueryKeywords == {"Open", "Log", "Log In", "Click", "Close", "Never"}
Limits == {1, 10}
Partials == {"", "log", "LOG", "Log"}
Filters == {NoFilter, "Custom"}
ContextLists == {<<>>, <<"Open">>, <<"Open", "Click">>, <<"Click", "Open">>,
                 <<"Log", "Log In">>, <<"Never">>}

\* a query runs to its return statement; the caller then takes the answer
QueryFrame ==
    /\ pc' = "answered"
    /\ just_loaded' = FALSE
    /\ UNCHANGED <<extractorVars, pending, save_after, hash_seed, model_file,
                   nProcessed, trained, saved>>

Return ==
    /\ pc = "answered"
    /\ pc' = "idle"
    /\ result' = NoResult
    /\ UNCHANGED <<extractorVars, analyzerVars, pending, save_after, hash_seed,
                   model_file, historyVars>>

get_recommendations ==
    /\ pc = "idle"
    /\ \E current_keyword \in QueryKeywords, max_recommendations \in Limits :
          LET recs == AnalyzerRecommendations(Analyzer, current_keyword, "",
                                              max_recommendations, hash_seed)
          IN /\ result' = [op |-> "get_recommendations",
                           current_keyword |-> current_keyword,
                           max_recommendations |-> max_recommendations,
                           recs |-> recs,
                           value |-> UserFriendly(recs)]
             /\ keyword_transitions' =
                    TouchAll(keyword_transitions,
                             RecommendSubscripts(Analyzer, current_keyword,
                                                 max_recommendations), <<>>)
    /\ UNCHANGED <<keyword_sequences, keyword_contexts, library_keywords,
                   keyword_frequencies, keyword_libraries>>
    /\ QueryFrame

get_autocomplete ==
    /\ pc = "idle"
    /\ \E partial_keyword \in Partials, library_filter \in Filters :
          /\ result' = [op |-> "get_autocomplete",
                        partial_keyword |-> partial_keyword,
                        library_filter |-> library_filter,
                        value |-> AutocompleteSuggestions(Analyzer, partial_keyword,
                                                          library_filter, hash_seed)]
          /\ keyword_contexts' =
                 TouchAll(keyword_contexts,
                          AutocompleteSubscripts(Analyzer, partial_keyword,
                                                 library_filter), {})
    /\ UNCHANGED <<keyword_sequences, keyword_transitions, library_keywords,
                   keyword_frequencies, keyword_libraries>>
    /\ QueryFrame

get_context_recommendations ==
    /\ pc = "idle"
    /\ \E context_keywords \in ContextLists, max_recommendations \in Limits :
          LET recs == ContextRecommendations(Analyzer, context_keywords,
                                             max_recommendations)
          IN result' = [op |-> "get_context_recommendations",
                        context_keywords |-> context_keywords,
                        max_recommendations |-> max_recommendations,
                        recs |-> recs,
                        value |-> UserFriendly(recs)]
    /\ UNCHANGED analyzerVars
    /\ QueryFrame

get_popular_keywords ==
    /\ pc = "idle"
    /\ \E library \in {NoFilter, "Custom"}, limit \in {1, 20} :
          result' = [op |-> "get_popular_keywords",
                     library |-> library,
                     limit |-> limit,
                     value |-> PopularKeywords(Analyzer, library, limit)]
    /\ UNCHANGED analyzerVars
    /\ QueryFrame

get_library_statistics ==
    /\ pc = "idle"
    /\ result' = [op |-> "get_library_statistics",
                  value |-> LibraryStatistics(Analyzer, hash_seed)]
    /\ UNCHANGED analyzerVars
    /\ QueryFrame

-----------------------------------------------------------------------------
(* Specification of a run of the recommender.                              *)

Init ==
    /\ log = NoLog
    /\ log_file = "log.html"
    /\ ExtractorInit
    /\ AnalyzerInit
    /\ ProcessInit

Next ==
    \/ Construct
    \/ TrainStart
    \/ AnalyzeOutputFile
    \/ TrainEnd
    \/ SaveModel
    \/ LoadModel
    \/ get_recommendations
    \/ get_autocomplete
    \/ get_context_recommendations
    \/ get_popular_keywords
    \/ get_library_statistics
    \/ Return

Spec == Init /\ [][Next]_vars

-----------------------------------------------------------------------------
(* Claims about the extractors (checked under SpecExtract).                *)

RECURSIVE DottedJoin(_)
\* ".".join(names)
DottedJoin(names) ==
    IF names = <<>> THEN ""
    ELSE IF Len(names) = 1 THEN names[1]
    ELSE DottedJoin(SubSeq(names, 1, Len(names) - 1)) \o "." \o names[Len(names)]

RECURSIVE NamesTagged(_, _)
\* the names of the path entries whose tag is in tags, in order
NamesTagged(path, tags) ==
    IF path = <<>> THEN <<>>
    ELSE (IF path[1][1] \in tags THEN <<path[1][2]>> ELSE <<>>)
         \o NamesTagged(Tail(path), tags)

\* the keyword nodes of the document, in document order
KeywordNodes(file) == Descendants(RobotElem(file.root), "kw")

\* C5: extract_keywords returns exactly one record per keyword node of the
\* log, in document (execution) order, none omitted and none repeated.
C5_OneRecordPerKeywordNode ==
    xstate = "returned" =>
        /\ Len(keywords) = Len(KeywordNodes(log))
        /\ \A i \in DOMAIN keywords :
              keywords[i].name = AttrGet(KeywordNodes(log)[i], "name", "Unknown")

\* C6 as claimed: the parent path is empty at level 0 and otherwise the
\* dotted names of the ancestor keyword nodes only.
C6_ParentIsKeywordChain ==
    \A i \in DOMAIN keywords :
        /\ keywords[i].level = 0 => keywords[i].parent = ""
        /\ keywords[i].parent = DottedJoin(NamesTagged(keywords[i].path, {"kw"}))

\* C6 as amended: the parent path is the dotted concatenation of the owning
\* test's name (when the keyword is inside a test) followed by the names of
\* its ancestor keyword nodes; its level is the number of those keyword nodes.
C6_ParentIsTestAndKeywordChain ==
    \A i \in DOMAIN keywords :
        /\ keywords[i].parent = DottedJoin(NamesTagged(keywords[i].path, {"test", "kw"}))
        /\ keywords[i].level = Len(NamesTagged(keywords[i].path, {"kw"}))

\* a keyword B nested in a top-level keyword A of test T has been recorded
C6_Witness ==
    /\ xstate = "returned"
    /\ \E i \in DOMAIN keywords :
          /\ keywords[i].name = "B"
          /\ keywords[i].level = 1
          /\ keywords[i].test_name = "T"
          /\ keywords[i].parent = "T.A"

\* C11: in the record list of an extractor, structured or fallback, the
\* i-th appended record has execution order i, so the execution orders are
\* unique and strictly increasing with append order.
C11_ExecutionOrderIsPosition ==
    /\ \A i \in DOMAIN keywords : keywords[i].execution_order = i
    /\ \A i \in DOMAIN html_keywords : html_keywords[i].execution_order = i
    /\ \A i \in DOMAIN keywords : \A j \in DOMAIN keywords :
          i < j => keywords[i].execution_order < keywords[j].execution_order
    /\ \A i \in DOMAIN html_keywords : \A j \in DOMAIN html_keywords :
          i < j => html_keywords[i].execution_order < html_keywords[j].execution_order

\* both extractors have returned the records of one run, three or more each
C11_Witness ==
    /\ xstate = "returned"
    /\ Len(returns) = 1
    /\ Len(keywords) >= 3
    /\ hstate = "returned"
    /\ Len(html_returns) = 1
    /\ Len(html_keywords) >= 3

\* node a is a proper ancestor of node b
IsAncestor(a, b) == Len(a) < Len(b) /\ SubSeq(b, 1, Len(a)) = a

\* C12: in the list one structured extraction returns, every record of a
\* keyword node has a smaller execution order than every record of any
\* keyword node nested inside it.
C12_ParentBeforeDescendants ==
    (xstate = "returned" /\ Len(returns) = 1) =>
        \A i \in DOMAIN keywords : \A j \in DOMAIN keywords :
            IsAncestor(keywords[i].node, keywords[j].node)
                => keywords[i].execution_order < keywords[j].execution_order

\* C13: every call of extract_keywords on the same unmodified log returns
\* the same ordered record list, the first call on a fresh extractor and
\* the later ones on the same object alike.
C13_SameListEveryCall ==
    /\ \A i \in DOMAIN returns : returns[i] = returns[1]
    /\ \A i \in DOMAIN html_returns : html_returns[i] = html_returns[1]

\* C16: the fallback extractor never raises on a readable document, and
\* when no strategy finds records its result is the empty list.
C16_FallbackNeverRaises ==
    hstate # "raised"

\* what C17 compares of a record
Walked(kws) ==
    [i \in DOMAIN kws |-> <<kws[i].name, kws[i].level, kws[i].parent,
                            kws[i].test_name, kws[i].execution_order>>]

\* C17: for the same suite/test/keyword tree the fallback extractor's walk
\* yields the same sequence of (name, level, parent path, owning test name,
\* execution order) as the structured extractor's.
C17_SameWalk ==
    (log.kind = "xml" /\ Len(returns) = 1 /\ Len(html_returns) = 1) =>
        Walked(html_returns[1]) = Walked(returns[1])

\* the name of the test a node with this path is in, "" when in none
OwningTest(path) ==
    LET tests == NamesTagged(path, {"test"})
    IN IF tests = <<>> THEN "" ELSE tests[Len(tests)]

\* C18: in every record list, structured or fallback, a keyword outside any
\* test has an empty owning test name and a keyword inside a test has that
\* test's name.
C18_TestNameIsOwningTest ==
    /\ \A i \in DOMAIN keywords :
          keywords[i].test_name = OwningTest(keywords[i].path)
    /\ \A i \in DOMAIN html_keywords :
          html_keywords[i].test_name = OwningTest(html_keywords[i].path)

-----------------------------------------------------------------------------
(* Claims about training and the queries (checked under Spec).             *)

\* count(a -> b) in the transition table
TransitionCount(a, b) == CounterAt(DictGet(keyword_transitions, a, <<>>), b)

RECURSIVE SumSeq(_)
SumSeq(numbers) == IF numbers = <<>> THEN 0 ELSE numbers[1] + SumSeq(Tail(numbers))

\* C1: a file whose extraction fails does not abort training: the failure
\* is caught and the files after it in the list are still ingested.
C1_TrainingNeverAborted ==
    pc # "exited"

\* C2 as claimed: after the setup/teardown log (Open{Log}, Click, Close) has
\* been ingested into an empty analyzer, count(Open -> Click) = 1 and
\* count(Click -> Close) = 1.
C2_SkipsNestedKeyword ==
    trained = <<"login.xml">> =>
        /\ TransitionCount("Open", "Click") = 1
        /\ TransitionCount("Click", "Close") = 1

\* C2 as amended: the nested keyword takes part in the chain, so the counts
\* are Open -> Log = 1, Log -> Click = 1, Click -> Close = 1 and
\* Open -> Click = 0.
C2_ChainThroughNestedKeyword ==
    trained = <<"login.xml">> =>
        /\ TransitionCount("Open", "Log") = 1
        /\ TransitionCount("Log", "Click") = 1
        /\ TransitionCount("Click", "Close") = 1
        /\ TransitionCount("Open", "Click") = 0

C2_Witness ==
    /\ trained = <<"login.xml">>
    /\ pc = "training"
    /\ TransitionCount("Click", "Close") = 1

\* C3: autocomplete returns at most 20 matches, by frequency descending and,
\* at equal frequency, the shorter keyword name first.
C3_ShorterNameFirst ==
    (pc = "answered" /\ result.op = "get_autocomplete") =>
        /\ Len(result.value) <= 20
        /\ \A i \in DOMAIN result.value : \A j \in DOMAIN result.value :
              i < j =>
                 \/ result.value[i].frequency > result.value[j].frequency
                 \/ /\ result.value[i].frequency = result.value[j].frequency
                    /\ Len(result.value[i].keyword) <= Len(result.value[j].keyword)

\* C4: every keyword is in the library index set of exactly one library, the
\* one of its latest observation.
C4_OneLibraryPerKeyword ==
    \A i \in DOMAIN keyword_libraries :
        {library_keywords[j][1] :
            j \in {l \in DOMAIN library_keywords :
                     keyword_libraries[i][1] \in library_keywords[l][2]}}
        = {keyword_libraries[i][2]}

\* the successors recorded for keyword x are exactly y (3 times) and z (once)
ThreeToOne(x, y, z) ==
    /\ y # z
    /\ DictHas(keyword_transitions, x)
    /\ DictKeys(DictAt(keyword_transitions, x)) = {y, z}
    /\ TransitionCount(x, y) = 3
    /\ TransitionCount(x, z) = 1

\* C7: when X was followed by Y three times and by Z once, the direct query
\* for X (limit at least 2) returns Y with confidence 0.75, then Z with 0.25.
C7_ThreeQuartersThenOneQuarter ==
    (/\ pc = "answered"
     /\ result.op = "get_recommendations"
     /\ result.max_recommendations >= 2) =>
        \A y \in QueryKeywords, z \in QueryKeywords :
            ThreeToOne(result.current_keyword, y, z) =>
                /\ Len(result.value) = 2
                /\ result.value[1].keyword = y
                /\ result.value[1].confidence = 750
                /\ RatEq(result.recs[1].confidence, <<3, 4>>)
                /\ result.value[2].keyword = z
                /\ result.value[2].confidence = 250
                /\ RatEq(result.recs[2].confidence, <<1, 4>>)

C7_Witness ==
    /\ pc = "answered"
    /\ result.op = "get_recommendations"
    /\ result.current_keyword = "Open"
    /\ result.max_recommendations = 10
    /\ Len(trained) = 2
    /\ ThreeToOne("Open", "Click", "Log")

\* the direct query's case of C8: the keyword has outgoing transitions and
\* the limit is at least the number of its distinct successors
FullDirectAnswer ==
    /\ pc = "answered"
    /\ result.op = "get_recommendations"
    /\ DictHas(keyword_transitions, result.current_keyword)
    /\ result.max_recommendations
          >= Len(DictAt(keyword_transitions, result.current_keyword))

\* C8 as claimed: the confidences the query returns sum to 1.
C8_ReturnedConfidencesSumToOne ==
    FullDirectAnswer =>
        SumSeq([i \in DOMAIN result.value |-> result.value[i].confidence]) = 1000

\* C8 as amended: every successor is returned, its confidence computed as
\* count/total with the counts summing to the keyword's total, and the
\* confidences handed to the caller are these rounded to 3 decimals, so
\* that their sum is within 0.0005 per candidate of 1.
C8_CountsSumToTotal ==
    FullDirectAnswer =>
        LET transitions == DictAt(keyword_transitions, result.current_keyword)
            total == SumValues(transitions)
            returned == SumSeq([i \in DOMAIN result.value |->
                                   result.value[i].confidence])
        IN /\ Len(result.recs) = Len(transitions)
           /\ \A i \in DOMAIN result.recs :
                 /\ result.recs[i].usage_count
                       = CounterAt(transitions, result.recs[i].keyword)
                 /\ result.recs[i].confidence = <<result.recs[i].usage_count, total>>
                 /\ 2 * (1000 * result.recs[i].usage_count
                           - total * result.value[i].confidence) <= total
                 /\ 2 * (total * result.value[i].confidence
                           - 1000 * result.recs[i].usage_count) <= total
           /\ SumSeq([i \in DOMAIN result.recs |-> result.recs[i].usage_count]) = total
           /\ 2 * (returned - 1000) <= Len(result.recs)
           /\ 2 * (1000 - returned) <= Len(result.recs)

\* three successors seen once each: 0.333 each
C8_Witness ==
    /\ FullDirectAnswer
    /\ Len(result.value) = 3
    /\ \A i \in DOMAIN result.value : result.value[i].confidence = 333

\* every query on analyzer an in a process with hash seed seed
DirectOrFallback(an, seed) ==
    [q \in QueryKeywords \X Limits |->
        AnalyzerRecommendations(an, q[1], "", q[2], seed)]

ContextAnswers(an) ==
    [q \in ContextLists \X Limits |-> ContextRecommendations(an, q[1], q[2])]

AutocompleteAnswers(an, seed) ==
    [q \in Partials \X Filters |-> AutocompleteSuggestions(an, q[1], q[2], seed)]

\* an autocomplete answer with each contexts list taken as a set
ContextsAsSets(suggestions) ==
    [i \in DOMAIN suggestions |->
        [suggestions[i] EXCEPT !.contexts = Range(suggestions[i].contexts)]]

\* C9 as claimed: after load_model the six structures equal the saved ones
\* and every direct, library-fallback, context and autocomplete query
\* returns what it returned before the model was saved.
C9_SameAnswersAfterLoad ==
    just_loaded =>
        /\ Analyzer = saved.an
        /\ DirectOrFallback(Analyzer, hash_seed) = DirectOrFallback(saved.an, saved.seed)
        /\ ContextAnswers(Analyzer) = ContextAnswers(saved.an)
        /\ AutocompleteAnswers(Analyzer, hash_seed)
              = AutocompleteAnswers(saved.an, saved.seed)

\* C9 as amended: after load_model the six structures equal the saved ones;
\* direct-transition and context queries return what they returned before;
\* autocomplete returns the same entries in the same order, the contexts of
\* an entry possibly in another order; a library-fallback query that the
\* limit does not cut returns the same candidates, those of equal usage
\* count possibly in another order.
C9_StructuresRestored ==
    just_loaded =>
        /\ Analyzer = saved.an
        /\ ContextAnswers(Analyzer) = ContextAnswers(saved.an)
        /\ \A q \in Partials \X Filters :
              ContextsAsSets(AutocompleteSuggestions(Analyzer, q[1], q[2], hash_seed))
              = ContextsAsSets(AutocompleteSuggestions(saved.an, q[1], q[2], saved.seed))
        /\ \A k \in QueryKeywords : \A n \in Limits :
              LET now == AnalyzerRecommendations(Analyzer, k, "", n, hash_seed)
                  before == AnalyzerRecommendations(saved.an, k, "", n, saved.seed)
              IN IF DictHas(saved.an.keyword_transitions, k)
                 THEN now = before
                 ELSE /\ Len(now) = Len(before)
                      /\ [i \in DOMAIN now |-> now[i].usage_count]
                            = [i \in DOMAIN before |-> before[i].usage_count]
                      /\ (n = 10 => Range(now) = Range(before))

\* a trained model is loaded in a process with another hash seed, into an
\* analyzer that held something else
C9_Witness ==
    /\ just_loaded
    /\ saved.an # EmptyAnalyzer
    /\ hash_seed # saved.seed
    /\ \E k \in QueryKeywords :
          /\ ~DictHas(keyword_transitions, k)
          /\ Len(AnalyzerRecommendations(Analyzer, k, "", 10, hash_seed)) >= 2

\* C10: no query changes any structure of the analyzer, whatever its
\* arguments.
C10_QueriesReadOnly ==
    [][(pc = "idle" /\ pc' = "answered") => UNCHANGED analyzerVars]_vars

\* a query about a keyword never seen in training has been answered by a
\* trained analyzer
C10_Witness ==
    /\ pc = "answered"
    /\ result.op = "get_recommendations"
    /\ result.current_keyword = "Never"
    /\ trained # <<>>

\* the keywords seen in training
Seen == DictKeys(keyword_libraries)

\* a keyword never seen in training is asked about, or the model is empty
UnseenAsked(names) == keyword_libraries = <<>> \/ \E n \in names : n \notin Seen

\* C14 as claimed: on an empty model, and on any model for a keyword never
\* seen in training, the direct/library-fallback query, the context query and
\* the autocomplete query each return an empty list.
C14_UnseenGivesEmpty ==
    pc = "answered" =>
        /\ (result.op = "get_recommendations"
              /\ UnseenAsked({result.current_keyword})) => result.value = <<>>
        /\ (result.op = "get_context_recommendations"
              /\ UnseenAsked(Range(result.context_keywords))) => result.value = <<>>
        /\ (result.op = "get_autocomplete"
              /\ UnseenAsked({result.partial_keyword})) => result.value = <<>>

\* every stored sequence that contains all context keywords ends at the last
\* of them
NothingFollows(context_keywords) ==
    \A n \in DOMAIN keyword_sequences :
        (\A c \in Range(context_keywords) : c \in Range(keyword_sequences[n]))
            => Max({IndexOf(keyword_sequences[n], c) : c \in Range(context_keywords)})
                  = Len(keyword_sequences[n])

\* the trained keywords that autocomplete matches: the lower-cased name
\* contains the lower-cased text, and the library passes the filter
Matched(partial_keyword, library_filter) ==
    {k \in Seen :
        /\ IsSubstring(Lower(Chars(partial_keyword)), Lower(Chars(k)))
        /\ library_filter \in {NoFilter, DictAt(keyword_libraries, k)}}

\* C14 as amended: no query divides by zero or misses a key; the direct and
\* the context query return an empty list on an empty model, for a keyword
\* never seen in training, the context query also for an empty list of
\* keywords and when nothing follows the context keywords in any matching
\* sequence; the autocomplete query returns exactly the trained
\* keywords whose name contains the given text, whatever the case of the
\* letters, so it is empty on an empty model and whenever no trained name
\* contains the text, and only then.
C14_UnseenNeverRaises ==
    pc = "answered" =>
        /\ (result.op = "get_recommendations"
              /\ UnseenAsked({result.current_keyword})) => result.value = <<>>
        /\ (result.op = "get_context_recommendations"
              /\ \/ result.context_keywords = <<>>
                 \/ UnseenAsked(Range(result.context_keywords))
                 \/ NothingFollows(result.context_keywords)) => result.value = <<>>
        /\ result.op \in {"get_recommendations", "get_context_recommendations"} =>
              \A i \in DOMAIN result.recs : result.recs[i].confidence[2] > 0
        /\ result.op = "get_autocomplete" =>
              {result.value[i].keyword : i \in DOMAIN result.value}
                 = Matched(result.partial_keyword, result.library_filter)

\* a trained model was asked for what follows Log and Log In, which end the
\* only sequence that holds both
C14_Witness ==
    /\ pc = "answered"
    /\ result.op = "get_context_recommendations"
    /\ result.context_keywords = <<"Log", "Log In">>
    /\ \E n \in DOMAIN keyword_sequences :
          {"Log", "Log In"} \subseteq Range(keyword_sequences[n])
    /\ NothingFollows(result.context_keywords)
    /\ result.value = <<>>

\* the first index at which kw occurs in sequence
FirstOccurrence(sequence, kw) ==
    CHOOSE i \in DOMAIN sequence :
        sequence[i] = kw /\ \A j \in DOMAIN sequence : sequence[j] = kw => i <= j

\* the stored sequences in which k is the element right after the last of
\* the context keywords' first occurrences
TalliedIn(context_keywords, k) ==
    {n \in DOMAIN keyword_sequences :
        /\ \A c \in Range(context_keywords) : c \in Range(keyword_sequences[n])
        /\ LET after == 1 + Max({FirstOccurrence(keyword_sequences[n], c) :
                                    c \in Range(context_keywords)})
           IN /\ after <= Len(keyword_sequences[n])
              /\ keyword_sequences[n][after] = k}

Tally(context_keywords, k) == Cardinality(TalliedIn(context_keywords, k))

\* C15: the context query tallies, over the stored sequences that contain
\* all given keywords, the element after the last of their first
\* occurrences; it returns the successors by tally descending, as many as
\* the limit allows, each with confidence tally / total tallies, and an
\* empty list when no stored sequence contains every given keyword.
C15_ContextTallies ==
    (pc = "answered" /\ result.op = "get_context_recommendations") =>
        LET context_keywords == result.context_keywords
            names == UNION {Range(keyword_sequences[n]) : n \in DOMAIN keyword_sequences}
            tallied == {k \in names : Tally(context_keywords, k) > 0}
            order == SetToSeq(tallied)
            total == SumSeq([i \in DOMAIN order |-> Tally(context_keywords, order[i])])
            recs == result.recs
        IN IF context_keywords = <<>> THEN recs = <<>>
           ELSE /\ Len(recs) = IF result.max_recommendations < Cardinality(tallied)
                               THEN result.max_recommendations
                               ELSE Cardinality(tallied)
                /\ \A i \in DOMAIN recs :
                      /\ recs[i].keyword \in tallied
                      /\ recs[i].usage_count = Tally(context_keywords, recs[i].keyword)
                      /\ recs[i].confidence = <<recs[i].usage_count, total>>
                      /\ result.value[i].keyword = recs[i].keyword
                      /\ result.value[i].confidence = Round3(recs[i].confidence)
                /\ \A i \in DOMAIN recs : \A j \in DOMAIN recs :
                      i < j => /\ recs[i].keyword # recs[j].keyword
                               /\ recs[i].usage_count >= recs[j].usage_count
                /\ \A k \in tallied :
                      (\A i \in DOMAIN recs : recs[i].keyword # k) =>
                          \A i \in DOMAIN recs :
                              recs[i].usage_count >= Tally(context_keywords, k)
                /\ (\A n \in DOMAIN keyword_sequences :
                       \E c \in Range(context_keywords) :
                           c \notin Range(keyword_sequences[n])) => recs = <<>>

\* the keywords were given in the other order than they occur, and two
\* different successors were tallied
C15_Witness ==
    /\ pc = "answered"
    /\ result.op = "get_context_recommendations"
    /\ result.context_keywords = <<"Click", "Open">>
    /\ Len(result.recs) = 2
    /\ \E n \in DOMAIN keyword_sequences :
          /\ {"Click", "Open"} \subseteq Range(keyword_sequences[n])
          /\ FirstOccurrence(keyword_sequences[n], "Open")
                < FirstOccurrence(keyword_sequences[n], "Click")

\* the answer of the direct query is made of library-based candidates
LibraryBasedAnswer ==
    /\ pc = "answered"
    /\ result.op = "get_recommendations"
    /\ result.recs # <<>>
    /\ DirectCandidates(Analyzer, result.current_keyword, "",
                        result.max_recommendations) = <<>>

\* C19: library-based candidates are returned only when the queried keyword
\* has no outgoing transition and its library is known; each has confidence
\* 0.1, differs from the queried keyword, and is a keyword whose currently
\* recorded library is the queried keyword's library.
C19_FallbackSharesCurrentLibrary ==
    LibraryBasedAnswer =>
        /\ ~DictHas(keyword_transitions, result.current_keyword)
        /\ DictHas(keyword_libraries, result.current_keyword)
        /\ \A i \in DOMAIN result.recs :
              /\ result.recs[i].confidence = <<1, 10>>
              /\ result.value[i].confidence = 100
              /\ result.recs[i].keyword # result.current_keyword
              /\ DictHas(keyword_libraries, result.recs[i].keyword)
              /\ DictAt(keyword_libraries, result.recs[i].keyword)
                    = DictAt(keyword_libraries, result.current_keyword)

\* a step that is one call of analyze_output_file
IngestionStep == pc = "training" /\ nProcessed' = nProcessed + 1

\* C20: a call of the ingestion operation only grows the analyzer: no
\* frequency or transition count decreases, every context set and library
\* set keeps its members, and the sequence log keeps its sequences as a
\* prefix of the new log.
C20_IngestionOnlyGrows ==
    [][IngestionStep =>
        /\ \A k \in DictKeys(keyword_frequencies) :
              CounterAt(keyword_frequencies', k) >= CounterAt(keyword_frequencies, k)
        /\ \A a \in DictKeys(keyword_transitions) :
              \A b \in DictKeys(DictAt(keyword_transitions, a)) :
                  CounterAt(DictGet(keyword_transitions', a, <<>>), b)
                     >= CounterAt(DictAt(keyword_transitions, a), b)
        /\ \A k \in DictKeys(keyword_contexts) :
              DictAt(keyword_contexts, k) \subseteq DictGet(keyword_contexts', k, {})
        /\ \A l \in DictKeys(library_keywords) :
              DictAt(library_keywords, l) \subseteq DictGet(library_keywords', l, {})
        /\ \A k \in DictKeys(keyword_libraries) : DictHas(keyword_libraries', k)
        /\ Len(keyword_sequences') >= Len(keyword_sequences)
        /\ SubSeq(keyword_sequences', 1, Len(keyword_sequences)) = keyword_sequences
      ]_vars

\* a second log has been ingested on top of a first one: counts, sets and
\* the sequence log have grown
C20_Witness ==
    /\ pc = "training"
    /\ Len(trained) = 2
    /\ CounterAt(keyword_frequencies, "Open") >= 3
    /\ Len(keyword_sequences) >= 2
    /\ \E l \in DictKeys(library_keywords) : Cardinality(DictAt(library_keywords, l)) >= 3

-----------------------------------------------------------------------------
(* Claims about ingestion (checked under Spec).                            *)

\* the records extract_keywords returns for a file, none when it fails
RecordsOf(output_file) ==
    LET out == ExtractOutcome(Content(output_file), <<>>)
    IN IF out.kind = "ok" THEN out.keywords ELSE <<>>

\* the names of the records at level 0, and at level 1, of the logs
Level0Names ==
    UNION {{r.name : r \in {x \in Range(RecordsOf(f)) : x.level = 0}} : f \in Files}

Level1Names ==
    UNION {{r.name : r \in {x \in Range(RecordsOf(f)) : x.level = 1}} : f \in Files}

\* C21: every stored context string is the name of one level-0 keyword, or
\* the name of a level-0 keyword, a dot and the name of one level-1
\* keyword; it never holds more than two keyword names.
C21_ContextOfTopTwoLevels ==
    \A k \in DictKeys(keyword_contexts) :
        \A c \in DictAt(keyword_contexts, k) :
            \/ c \in Level0Names
            \/ \E a \in Level0Names : \E b \in Level1Names : c = a \o "." \o b

\* a record of kind setup or teardown at level 0
Boundary(r) == r.type \in {"SETUP", "TEARDOWN"} /\ r.level = 0

BoundaryPositions(kws) == {i \in DOMAIN kws : Boundary(kws[i])}

\* the stretches <<first, last>> of positions of kws that the boundary rule
\* stores: one ending at each boundary record after the first record,
\* starting at the boundary record before it (or at the first record), and
\* the stretch from the last boundary record (or the first record) to the end
Stretches(kws) ==
    LET Closing(i) == i > 1 /\ Boundary(kws[i])
        closing == SelectSeq([i \in 1..Len(kws) |-> i], Closing)
        closed == [k \in 1..Len(closing) |->
                      <<Max({j \in BoundaryPositions(kws) : j < closing[k]} \cup {1}),
                        closing[k]>>]
    IN IF kws = <<>> THEN <<>>
       ELSE Append(closed, <<Max(BoundaryPositions(kws) \cup {1}), Len(kws)>>)

\* the names of the records of a stretch
NamesOfStretch(kws, stretch) ==
    [i \in 1..(stretch[2] - stretch[1] + 1) |-> kws[stretch[1] + i - 1].name]

\* C22: ingesting a file appends to the sequence log exactly the stretches
\* cut at the level-0 setup/teardown records: a stretch closed by such a
\* record is stored only when it has more than one element, the next one
\* starts with that record alone, no such record is in the interior of a
\* stored sequence, and the last stretch is stored whatever its length.
C22_SequencesCutAtBoundaries ==
    [][(IngestionStep /\ Len(trained') > Len(trained)) =>
        LET kws == RecordsOf(Head(pending))
            stretches == Stretches(kws)
        IN /\ keyword_sequences' =
                 keyword_sequences \o
                    [k \in 1..Len(stretches) |-> NamesOfStretch(kws, stretches[k])]
           /\ \A k \in 1..Len(stretches) :
                 /\ k < Len(stretches) => stretches[k][2] - stretches[k][1] >= 1
                 /\ \A i \in (stretches[k][1] + 1)..(stretches[k][2] - 1) :
                       ~Boundary(kws[i])
      ]_vars

\* login.xml has been ingested: its setup Open opened a sequence without
\* being stored alone, its teardown Close closed that sequence and is stored
\* again as the last sequence, of one element
C22_Witness ==
    /\ trained = <<"login.xml">>
    /\ keyword_sequences = <<<<"Open", "Log", "Click", "Close">>, <<"Close">>>>

\* every keyword name in the transition table or in the sequence log
NamesHeld ==
    DictKeys(keyword_transitions)
    \cup UNION {DictKeys(DictAt(keyword_transitions, a)) : a \in DictKeys(keyword_transitions)}
    \cup UNION {Range(keyword_sequences[s]) : s \in DOMAIN keyword_sequences}

\* the positions of the sequence log at which a is immediately followed by b
FollowedAt(a, b) ==
    UNION {{<<s, i>> : i \in {j \in 1..(Len(keyword_sequences[s]) - 1) :
                                /\ keyword_sequences[s][j] = a
                                /\ keyword_sequences[s][j + 1] = b}} :
           s \in DOMAIN keyword_sequences}

\* C23: the transition count from a to b is the number of positions of the
\* sequence log at which a is immediately followed by b; nothing is counted
\* that is not adjacent within one stored sequence, so nothing spans two
\* ingested files.
C23_TransitionsAreAdjacencies ==
    \A a \in NamesHeld : \A b \in NamesHeld :
        TransitionCount(a, b) = Cardinality(FollowedAt(a, b))

\* login.xml (ending with Close) and then twice.xml (starting with Open)
\* have been ingested: Open -> Click is counted twice, Click -> Open once,
\* and Close -> Open, which would span the two files, not at all
C23_Witness ==
    /\ trained = <<"login.xml", "twice.xml">>
    /\ TransitionCount("Open", "Click") = 2
    /\ TransitionCount("Click", "Open") = 1
    /\ TransitionCount("Close", "Open") = 0
    /\ "Close" \in NamesHeld

\* a step that is a call of analyze_output_file in which extraction fails
FailedIngestionStep ==
    /\ IngestionStep
    /\ ExtractOutcome(Content(Head(pending)), <<>>).kind # "ok"

\* C24: a call of analyze_output_file whose extraction fails changes none of
\* the analyzer's structures: the failed file contributes no partial data.
C24_FailedFileLeavesModel ==
    [][FailedIngestionStep => UNCHANGED analyzerVars]_vars

\* the training call has been ended by a file whose extraction exits, after
\* login.xml had been ingested: the model is that of login.xml alone
C24_Witness ==
    /\ pc = "exited"
    /\ nProcessed = 2
    /\ trained = <<"login.xml">>
    /\ Analyzer = AnalyzeKeywords(EmptyAnalyzer, RecordsOf("login.xml"))

====
